---- MODULE Spec2Model ----
(***************************************************************************)
(* Insurance policy analyzer: model.py (InsurancePolicyAnalyzer) and the   *)
(* /analyze-policy/ endpoint of api.py.                                    *)
(*                                                                         *)
(* Text is modelled character by character: a Python str is a sequence of  *)
(* one-character strings, so that lower(), strip(), split(), the `in`      *)
(* substring test and the regular expressions are computed, not assumed.   *)
(***************************************************************************)
EXTENDS Integers, Sequences, FiniteSets, TLC

VARIABLES
    policy_text,  \* the argument of the analyze_policy call in progress / last made
    nlp,          \* self.nlp, as the map  text |-> <<sent.text for sent in doc.sents>>
    result,       \* what the last analyze_policy call returned (NoResult before any)
    calls,        \* log of the completed analyzer.analyze_policy calls
    pc,           \* position of the /analyze-policy/ handler
    filename,     \* file.filename of the request being handled
    fs,           \* temporary files that exist on disk
    temp_path,    \* the handler's temp_path local (NoPath while unbound)
    created,      \* temporary files the current request created
    unlinks,      \* os.unlink calls of the current request, in order
    raising,      \* TRUE while an exception propagates out of the inner try
    response,     \* the JSONResponse returned for the current request
    invoked,      \* analyzer methods the current request has called
    extraction,   \* how the current request's text extraction went
    served        \* number of requests received so far

vars == <<policy_text, nlp, result, calls, pc, filename, fs, temp_path,
          created, unlinks, raising, response, invoked, extraction, served>>

apiVars == <<pc, filename, fs, temp_path, created, unlinks, raising,
             response, invoked, extraction, served>>

-----------------------------------------------------------------------------
(* Python str primitives                                                   *)

\* A str literal as its sequence of characters.
Chars(s) == [i \in 1..Len(s) |-> SubSeq(s, i, i)]

UpperCase == Chars("ABCDEFGHIJKLMNOPQRSTUVWXYZ")
LowerCase == Chars("abcdefghijklmnopqrstuvwxyz")
Digits == Chars("0123456789")

\* str.lower() / str.upper() of one character, as the tables of the cased
\* letters; every other character is its own lower and upper case.
LowerOf == [c \in {UpperCase[i] : i \in 1..26} |->
               LowerCase[CHOOSE i \in 1..26 : UpperCase[i] = c]]
UpperOf == [c \in {LowerCase[i] : i \in 1..26} |->
               UpperCase[CHOOSE i \in 1..26 : LowerCase[i] = c]]

ToLower(c) == IF c \in DOMAIN LowerOf THEN LowerOf[c] ELSE c

ToUpper(c) == IF c \in DOMAIN UpperOf THEN UpperOf[c] ELSE c

\* str.lower()
Lower(s) == [i \in 1..Len(s) |-> ToLower(s[i])]

\* str.capitalize(): first character upper-cased, the rest lower-cased.
Capitalize(s) == [i \in 1..Len(s) |-> IF i = 1 THEN ToUpper(s[i]) ELSE ToLower(s[i])]

\* Whitespace of str.strip(), str.split() and the regex class \s.
IsSpace(c) == c \in {" ", "\t", "\n", "\r", "\f"}

\* The regex class \w.
WordChars ==
    {UpperCase[i] : i \in 1..26} \cup {LowerCase[i] : i \in 1..26}
        \cup {Digits[i] : i \in 1..10} \cup {"_"}

IsWordChar(c) == c \in WordChars

\* str.strip()
Strip(s) ==
    LET keep == {i \in 1..Len(s) : ~IsSpace(s[i])}
    IN  IF keep = {} THEN <<>>
        ELSE LET lo == CHOOSE i \in keep : \A j \in keep : i <= j
                 hi == CHOOSE i \in keep : \A j \in keep : j <= i
             IN  SubSeq(s, lo, hi)

\* len(str.split()): the number of maximal runs of non-whitespace.
WordCount(s) ==
    Cardinality({i \in 1..Len(s) :
                    /\ ~IsSpace(s[i])
                    /\ (i = 1 \/ IsSpace(s[i - 1]))})

\* needle occurs in hay at index i.
OccursAt(needle, hay, i) ==
    /\ i >= 1
    /\ i + Len(needle) - 1 <= Len(hay)
    /\ \A k \in 1..Len(needle) : hay[i + k - 1] = needle[k]

\* `needle in hay`
Contains(hay, needle) == \E i \in 1..(Len(hay) + 1) : OccursAt(needle, hay, i)

\* str.endswith(suffix)
EndsWith(s, suffix) == OccursAt(suffix, s, Len(s) - Len(suffix) + 1)

\* any(keyword in s for keyword in keywords)
ContainsAny(s, keywords) == \E k \in 1..Len(keywords) : Contains(s, keywords[k])

\* The whole list, whatever its length: the slice left out.
Take_All(list, n) == list

\* list[:n]
Take(list, n) == SubSeq(list, 1, IF Len(list) < n THEN Len(list) ELSE n)

RECURSIVE Flatten(_)
\* The concatenation of a sequence of lists (a chain of list.extend).
Flatten(lists) ==
    IF lists = <<>> THEN <<>> ELSE Head(lists) \o Flatten(Tail(lists))

-----------------------------------------------------------------------------
(* The regular expressions of identify_loopholes, under re.IGNORECASE      *)

\* needle matches hay at index i, ignoring case.
OccursAtIgnoreCase(needle, hay, i) ==
    /\ i >= 1
    /\ i + Len(needle) - 1 <= Len(hay)
    /\ \A k \in 1..Len(needle) : ToLower(hay[i + k - 1]) = ToLower(needle[k])

\* \s in place of \s+: one whitespace character only.
SpaceRun_One(text, i) == IF i <= Len(text) /\ IsSpace(text[i]) THEN 1 ELSE 0

RECURSIVE SpaceRun(_, _)
\* The length of the run of whitespace starting at index i (a greedy \s+).
SpaceRun(text, i) ==
    IF i <= Len(text) /\ IsSpace(text[i]) THEN 1 + SpaceRun(text, i + 1) ELSE 0

RECURSIVE PhraseEnd(_, _, _)
\* A pattern  w1\s+w2\s+...  tried at index i: the index just past the match,
\* or 0 when it does not match there.  The pattern is given as <<w1, w2, ...>>.
PhraseEnd(pattern, text, i) ==
    IF ~OccursAtIgnoreCase(Head(pattern), text, i) THEN 0
    ELSE LET j == i + Len(Head(pattern))
         IN  IF Len(pattern) = 1 THEN j
             ELSE LET n == SpaceRun(text, j)
                  IN  IF n = 0 THEN 0 ELSE PhraseEnd(Tail(pattern), text, j + n)

\* The regex assertion \b at index i: exactly one of the characters before
\* and at i is a \w character (the ends of the text count as non-word).
WordBoundary(text, i) ==
    LET before == i >= 2 /\ i - 1 <= Len(text) /\ IsWordChar(text[i - 1])
        after  == i >= 1 /\ i <= Len(text) /\ IsWordChar(text[i])
    IN  before # after

\* The least element of a non-empty set of numbers.
Min(S) == CHOOSE x \in S : \A y \in S : x <= y

\* .*?[.!] under re.DOTALL: `.` matches a newline too, so the match runs to
\* the first '.' or '!' wherever it is.
LazyStop_DotAll(text, m) ==
    LET stops == {t \in m..Len(text) : text[t] \in {".", "!"}}
    IN  IF stops = {} THEN 0 ELSE Min(stops)

\* .*?[.!] from index m: `.` matches anything but a newline and the lazy
\* quantifier stops at the first '.' or '!', so the match ends at the first
\* of '.', '!' and newline, and fails when that is a newline or none is left.
\* The index of the terminator, or 0.
LazyStop(text, m) ==
    LET stops == {t \in m..Len(text) : text[t] \in {".", "!", "\n"}}
    IN  IF stops = {} THEN 0
        ELSE IF text[Min(stops)] = "\n" THEN 0 ELSE Min(stops)

\* The pattern  \b{keyword}\b.*?[.!]  tried at index i: the index just past
\* the match, or 0 when it does not match there.
ClauseEnd(keyword, text, i) ==
    LET j == i + Len(keyword)
    IN  IF /\ OccursAtIgnoreCase(keyword, text, i)
           /\ WordBoundary(text, i)
           /\ WordBoundary(text, j)
        THEN LET t == LazyStop(text, j) IN IF t = 0 THEN 0 ELSE t + 1
        ELSE 0

RECURSIVE Scan(_, _, _)
\* The scan of re.findall: ends[k] is the index just past the match found
\* when the pattern is tried at k (0: no match at k).  From index i on, the
\* leftmost match is taken and the scan resumes just past it.
Scan(ends, text, i) ==
    LET hits == {k \in i..Len(text) : ends[k] # 0}
    IN  IF hits = {} THEN <<>>
        ELSE <<SubSeq(text, Min(hits), ends[Min(hits)] - 1)>>
                 \o Scan(ends, text, ends[Min(hits)])

\* re.findall(pattern, text, re.IGNORECASE) for a phrase pattern: the matched
\* substrings, leftmost first, non-overlapping.  The pattern is tried only
\* where the text has its first letter (it cannot match anywhere else).
FindAllPhrases(pattern, text) ==
    Scan([k \in 1..Len(text) |->
             IF ToLower(text[k]) = Head(pattern)[1]
             THEN PhraseEnd(pattern, text, k) ELSE 0],
         text, 1)

\* re.findall(fr'\b{keyword}\b.*?[.!]', text, re.IGNORECASE), the pattern
\* tried only where the text has the keyword's first letter.
FindAllClauses(keyword, text) ==
    Scan([k \in 1..Len(text) |->
             IF ToLower(text[k]) = keyword[1]
             THEN ClauseEnd(keyword, text, k) ELSE 0],
         text, 1)

-----------------------------------------------------------------------------
(* InsurancePolicyAnalyzer.identify_loopholes                              *)

ambiguous_patterns ==
    << <<Chars("may"), Chars("not")>>,
       <<Chars("subject"), Chars("to")>>,
       <<Chars("contingent"), Chars("upon")>>,
       <<Chars("at"), Chars("discretion")>>,
       <<Chars("as"), Chars("determined"), Chars("by")>> >>

exclusion_keywords ==
    << Chars("not covered"), Chars("excluded"), Chars("limitation"),
       Chars("pre-existing condition"), Chars("waiting period") >>

rejection_indicators ==
    << Chars("documentation required"), Chars("proof of"),
       Chars("must provide"), Chars("conditional coverage") >>

\* The dict without its Limitation Flags key (the category no loop fills).
NewLoopholes_NoLimitationFlags ==
    ("Ambiguous Language" :> <<>>) @@ ("Exclusion Clauses" :> <<>>) @@
    ("Claim Rejection Risks" :> <<>>)

\* One dict kept across calls (a class attribute or mutable default): a call
\* starts from the lists the previous call filled.
NewLoopholes_Shared ==
    IF calls = <<>>
    THEN ("Ambiguous Language" :> <<>>) @@ ("Exclusion Clauses" :> <<>>) @@
         ("Limitation Flags" :> <<>>) @@ ("Claim Rejection Risks" :> <<>>)
    ELSE calls[Len(calls)].result.Loopholes

\* The dict the method starts from: a new one on every call.
NewLoopholes ==
    ("Ambiguous Language" :> <<>>) @@ ("Exclusion Clauses" :> <<>>) @@
    ("Limitation Flags" :> <<>>) @@ ("Claim Rejection Risks" :> <<>>)

\* for pattern in ambiguous_patterns: loopholes[...].extend(findall(...))
AmbiguousMatches(text) ==
    Flatten([p \in 1..Len(ambiguous_patterns) |->
                FindAllPhrases(ambiguous_patterns[p], text)])

\* for keyword in keywords: loopholes[...].extend(findall(...))
ClauseMatches(keywords, text) ==
    Flatten([k \in 1..Len(keywords) |-> FindAllClauses(keywords[k], text)])

identify_loopholes(text) ==
    [NewLoopholes EXCEPT
        !["Ambiguous Language"] = @ \o AmbiguousMatches(text),
        !["Exclusion Clauses"] = @ \o ClauseMatches(exclusion_keywords, text),
        !["Claim Rejection Risks"] = @ \o ClauseMatches(rejection_indicators, text)]

-----------------------------------------------------------------------------
(* The sentences the segmenter returns                                     *)

\* Distinct numbered plan sentences.
MaxPlans == 6

\* "Plan k terms include tax rebates.", k = 1..MaxPlans: six words, naming a
\* section (terms), a highlight keyword (include) and an Additional Benefits
\* keyword (tax).
PlanSentences ==
    [k \in 1..MaxPlans |->
        Chars("Plan ") \o <<Digits[k + 1]>> \o Chars(" terms include tax rebates.")]

\* Negated: a Medical Benefits keyword, "not " and "not covered".
NegatedSentence == Chars("Hospitalization is not covered under this plan.")
\* Three words only, with highlight keywords.
ShortSentence == Chars("Tax benefits included.")
\* Its text ends in "not" and trailing whitespace, as a span that ends in a
\* newline token does; it names a section (terms) and a Financial Benefits
\* keyword (premium).
TrailingNotSentence == Chars("Premium terms are covered or not \n")

OtherSentences == <<NegatedSentence, ShortSentence, TrailingNotSentence>>

\* Every sent.text the segmenter produces in this model.
Sentences == PlanSentences \o OtherSentences

SentenceIndex(text) == CHOOSE i \in 1..Len(Sentences) : Sentences[i] = text

-----------------------------------------------------------------------------
(* InsurancePolicyAnalyzer.summarize_policy                                *)

\* doc.sents of self.nlp(policy_text), each sentence as its sent.text.
doc_sents(text) == nlp[text]

section_patterns ==
    << Chars("coverage"), Chars("benefits"), Chars("exclusions"),
       Chars("claims"), Chars("terms"), Chars("conditions") >>

\* benefit_keywords.items(), in insertion order.
benefit_keywords ==
    << [category |-> "Medical Benefits",
        keywords |-> << Chars("treatment"), Chars("hospitalization"),
                        Chars("surgery"), Chars("medical"), Chars("health"),
                        Chars("care"), Chars("consultation") >>],
       [category |-> "Financial Benefits",
        keywords |-> << Chars("cashless"), Chars("reimbursement"),
                        Chars("coverage"), Chars("sum insured"),
                        Chars("premium"), Chars("discount") >>],
       [category |-> "Additional Benefits",
        keywords |-> << Chars("renewal"), Chars("bonus"), Chars("tax"),
                        Chars("family"), Chars("additional") >>] >>

highlight_keywords == << Chars("covered"), Chars("benefits"), Chars("include") >>

major_exclusion_keywords ==
    << Chars("not covered"), Chars("excluded"), Chars("exclusion"),
       Chars("limitation") >>

\* Sentences of at most this many words are ignored by Key Sections and Benefits.
ShortSentenceWords == 5
\* section_sentences[:3]
KeySectionLimit == 3
\* list(dict.fromkeys(...))[:5]
BenefitLimit == 5
\* Coverage Highlights [...][:5]
HighlightLimit == 5
\* Major Exclusions [...][:5]
ExclusionLimit == 5

\* {} : a dict with no key.
EmptyDict == <<>>

\* The suppression without its "not " test.
NotNegated_ExcludeOnly(s) == ~Contains(Lower(s), Chars("exclude"))

\* "not " not in s.lower() and "exclude" not in s.lower()
NotNegated(s) ==
    /\ ~Contains(Lower(s), Chars("not "))
    /\ ~Contains(Lower(s), Chars("exclude"))

\* The section test without the length filter.
in_section_AnyLength(section, text) == Contains(Lower(text), section)

\* section in sent.text.lower() and len(sent.text.split()) > 5
in_section(section, text) ==
    /\ Contains(Lower(text), section)
    /\ WordCount(text) > ShortSentenceWords

\* The three nested tests of the Benefits loop, on sent_text = sent.text.strip().
is_benefit(keywords, sent_text) ==
    /\ WordCount(sent_text) > ShortSentenceWords
    /\ ContainsAny(Lower(sent_text), keywords)
    /\ NotNegated(sent_text)

\* The condition of the Coverage Highlights comprehension, on sent.text.
is_highlight(text) ==
    /\ ContainsAny(Lower(text), highlight_keywords)
    /\ NotNegated(text)

\* The condition of the Major Exclusions comprehension, on sent.text.
is_exclusion(text) == ContainsAny(Lower(text), major_exclusion_keywords)

\* The tests above and sent.text.strip(), evaluated once for each sentence of
\* Sentences (they depend on the sentence alone).
sentence_tests ==
    [i \in 1..Len(Sentences) |->
        [strip     |-> Strip(Sentences[i]),
         sections  |-> {k \in 1..Len(section_patterns) :
                           in_section(section_patterns[k], Sentences[i])},
         benefits  |-> {c \in 1..Len(benefit_keywords) :
                           is_benefit(benefit_keywords[c].keywords, Strip(Sentences[i]))},
         highlight |-> is_highlight(Sentences[i]),
         exclusion |-> is_exclusion(Sentences[i])]]

TestsOf(text) == sentence_tests[SentenceIndex(text)]

\* [sent.text.strip() for sent in sents]
StripAll(sents) == [i \in 1..Len(sents) |-> TestsOf(sents[i]).strip]

\* The sentences of section_patterns[k], stripped.
section_sentences(k, sents) ==
    LET Keep(text) == k \in TestsOf(text).sections
    IN  StripAll(SelectSeq(sents, Keep))

\* summary["Key Sections"] after the loop over section_patterns: an entry is
\* stored only for a section with a sentence.
KeySections(sents) ==
    LET F[k \in 0..Len(section_patterns)] ==
            IF k = 0 THEN EmptyDict
            ELSE LET found == section_sentences(k, sents)
                 IN  IF found # <<>>
                     THEN (Capitalize(section_patterns[k]) :> Take(found, KeySectionLimit))
                              @@ F[k - 1]
                     ELSE F[k - 1]
    IN  F[Len(section_patterns)]

\* What the loop over doc.sents appends to summary["Benefits"][category],
\* for the c-th category.
BenefitAppends(c, sents) ==
    LET Keep(text) == c \in TestsOf(text).benefits
    IN  StripAll(SelectSeq(sents, Keep))

\* list(dict.fromkeys(list)): the first occurrence of each element, in order.
DictFromKeys(list) ==
    LET F[i \in 0..Len(list)] ==
            IF i = 0 THEN <<>>
            ELSE IF \E j \in 1..Len(F[i - 1]) : F[i - 1][j] = list[i]
                 THEN F[i - 1]
                 ELSE Append(F[i - 1], list[i])
    IN  F[Len(list)]

\* Truncation before deduplication: a repeat among the first five takes a slot.
BenefitList_TruncateFirst(list) == DictFromKeys(Take(list, BenefitLimit))

\* summary["Benefits"][category] after "Remove duplicates and limit".
BenefitList(list) == Take(DictFromKeys(list), BenefitLimit)

Benefits(sents) ==
    LET F[c \in 0..Len(benefit_keywords)] ==
            IF c = 0 THEN EmptyDict
            ELSE (benefit_keywords[c].category :> BenefitList(BenefitAppends(c, sents)))
                     @@ F[c - 1]
    IN  F[Len(benefit_keywords)]

CoverageHighlights(sents) ==
    LET Keep(text) == TestsOf(text).highlight
    IN  Take(StripAll(SelectSeq(sents, Keep)), HighlightLimit)

MajorExclusions(sents) ==
    LET Keep(text) == TestsOf(text).exclusion
    IN  Take(StripAll(SelectSeq(sents, Keep)), ExclusionLimit)

summarize_policy(text) ==
    LET sents == doc_sents(text)
    IN  ("Key Sections" :> KeySections(sents)) @@
        ("Coverage Highlights" :> CoverageHighlights(sents)) @@
        ("Benefits" :> Benefits(sents)) @@
        ("Major Exclusions" :> MajorExclusions(sents)) @@
        ("Claim Process" :> EmptyDict)

-----------------------------------------------------------------------------
(* InsurancePolicyAnalyzer.analyze_policy                                  *)

analyze_policy(text) ==
    [Loopholes |-> identify_loopholes(text), Summary |-> summarize_policy(text)]

-----------------------------------------------------------------------------
(* Inputs                                                                  *)

\* Longest sentence sequence the segmenter builds up sentence by sentence.
MaxSents == 6
\* Longest policy text, in pieces.
MaxPieces == 4
\* Most copies of the negated sentence in an over-long document.
MaxRepeats == 7
\* Most analyze_policy calls made on one analyzer.
MaxCalls == 3

EmptyText == <<>>

NoResult == [none |-> TRUE]

\* The sentences that may follow sents: any of OtherSentences, a plan
\* sentence already used, or the next unused one (the plan sentences differ
\* only in their number, so they are taken in order of first use).
NextSentences(sents) ==
    LET used == Cardinality({k \in 1..MaxPlans :
                                \E i \in 1..Len(sents) : sents[i] = PlanSentences[k]})
    IN  {OtherSentences[j] : j \in 1..Len(OtherSentences)} \cup
        {PlanSentences[k] : k \in 1..(IF used < MaxPlans THEN used + 1 ELSE MaxPlans)}

\* The text of a document made of the sentences sents, a space between them.
Join(sents) ==
    LET F[i \in 0..Len(sents)] ==
            IF i = 0 THEN EmptyText
            ELSE IF i = 1 THEN sents[1]
            ELSE F[i - 1] \o Chars(" ") \o sents[i]
    IN  F[Len(sents)]

\* Over-long documents: the first j plan sentences, then m copies of the
\* negated sentence.
RepeatSeqs ==
    {SubSeq(PlanSentences, 1, j) \o [i \in 1..m |-> NegatedSentence] :
        j \in 0..MaxPlans, m \in 0..MaxRepeats}

\* A few segmentations for the specifications that vary the text.
FewSeqs ==
    { <<>>,
      <<NegatedSentence>>,
      <<PlanSentences[1], ShortSentence, TrailingNotSentence>> }

\* The texts of up to MaxPieces pieces.
TextsOf(pieces) ==
    UNION {{Flatten(choice) : choice \in [1..n -> pieces]} : n \in 0..MaxPieces}

\* Pieces around the clause pattern \b{keyword}\b.*?[.!]
ClausePieces ==
    {Chars("excluded"), Chars("Proof of"), Chars(" "), Chars("\n"), Chars("."),
     Chars("!"), Chars("s")}

\* Pieces around the phrase patterns.
PhrasePieces ==
    {Chars("may not"), Chars("Subject \nTo"), Chars("At  Discretion"), Chars(" "),
     Chars("s")}

\* The texts analysed more than once.
CallTexts ==
    {EmptyText, Chars("It may not be excluded."), Chars("Proof of loss is required.")}

-----------------------------------------------------------------------------
(* The analyzer: __init__ and the calls main() and the endpoint make       *)

\* temp_path before the handler binds it.
NoPath == <<>>

\* No request received yet.
ApiIdle ==
    /\ pc = "idle"
    /\ filename = <<>>
    /\ fs = {}
    /\ temp_path = NoPath
    /\ created = {}
    /\ unlinks = <<>>
    /\ raising = FALSE
    /\ response = NoResult
    /\ invoked = <<>>
    /\ extraction = "not called"
    /\ served = 0

\* analysis_result = analyzer.analyze_policy(text): the call returns a new
\* record; self.nlp is read, nothing of the analyzer is assigned.
AnalyzeCall(text) ==
    /\ policy_text' = text
    /\ result' = analyze_policy(text)
    /\ calls' = Append(calls, [text |-> text, result |-> result'])
    /\ UNCHANGED nlp

\* main(): one analysis of policy_text.
Main ==
    /\ result = NoResult
    /\ AnalyzeCall(policy_text)
    /\ UNCHANGED apiVars

\* One more call on the module-level analyzer, on any text.
Call ==
    /\ Len(calls) < MaxCalls
    /\ \E text \in DOMAIN nlp : AnalyzeCall(text)
    /\ UNCHANGED apiVars

\* The document grows by one sentence: the text by the sentence's text after
\* a separating space, and the segmentation the loaded pipeline computes for
\* it by that sentence.
Segment ==
    /\ result = NoResult
    /\ Len(nlp[policy_text]) < MaxSents
    /\ \E x \in NextSentences(nlp[policy_text]) :
           /\ policy_text' = Join(Append(nlp[policy_text], x))
           /\ nlp' = (policy_text' :> Append(nlp[policy_text], x))
    /\ UNCHANGED <<result, calls>>
    /\ UNCHANGED apiVars

\* A text with no token has no sentence; the segmentation of any other text
\* is the pipeline's to choose.
SeqsFor(text, seqs) == IF text = EmptyText THEN {<<>>} ELSE seqs

InitOne(texts, seqs) ==
    /\ policy_text \in texts
    /\ nlp \in {(policy_text :> sents) : sents \in SeqsFor(policy_text, seqs)}
    /\ result = NoResult
    /\ calls = <<>>
    /\ ApiIdle

InitSummary == InitOne({EmptyText}, {<<>>})

\* A document given whole, with the segmentation it was made of.
InitBounds ==
    /\ nlp \in {(Join(sents) :> sents) : sents \in RepeatSeqs}
    /\ policy_text \in DOMAIN nlp
    /\ result = NoResult
    /\ calls = <<>>
    /\ ApiIdle

InitClauses == InitOne(TextsOf(ClausePieces), FewSeqs)
InitPhrases == InitOne(TextsOf(PhrasePieces), FewSeqs)

InitCalls ==
    /\ policy_text = EmptyText
    /\ nlp \in {f \in [CallTexts -> FewSeqs] : f[EmptyText] = <<>>}
    /\ result = NoResult
    /\ calls = <<>>
    /\ ApiIdle

NextSummary == Segment \/ Main

SpecSummary == InitSummary /\ [][NextSummary]_vars
SpecBounds == InitBounds /\ [][Main]_vars
SpecClauses == InitClauses /\ [][Main]_vars
SpecPhrases == InitPhrases /\ [][Main]_vars
SpecCalls == InitCalls /\ [][Call]_vars

-----------------------------------------------------------------------------
(* InsurancePolicyAnalyzer.extract_text_from_pdf                           *)

\* What can happen while the text is extracted: PyPDF2 cannot be imported;
\* open(file_path, 'rb') raises; PdfReader rejects the file; extract_text of
\* a page raises or returns None (text += None raises TypeError); or every
\* page yields its text.
ExtractionFailures == {"ImportError", "OSError", "PdfReadError", "PageError"}

ExtractionEvents == ExtractionFailures \cup {"extracted"}

\* Every failure is caught and answered with the empty string.
extract_text_from_pdf_CatchAll(event, pages_text) ==
    IF event \in ExtractionFailures
    THEN [raises |-> FALSE, text |-> EmptyText]
    ELSE [raises |-> FALSE, text |-> pages_text]

\* The method under the event: the only handler is `except ImportError`,
\* which returns ""; any other exception leaves the method.
extract_text_from_pdf(event, pages_text) ==
    IF event = "ImportError" THEN [raises |-> FALSE, text |-> EmptyText]
    ELSE IF event \in ExtractionFailures THEN [raises |-> TRUE, text |-> EmptyText]
    ELSE [raises |-> FALSE, text |-> pages_text]

-----------------------------------------------------------------------------
(* api.py: the POST /analyze-policy/ handler, statement by statement       *)

\* Requests served in a run.
MaxRequests == 2

\* file.filename of the uploads.
Filenames == {Chars("a.pdf"), Chars("a.PDF"), Chars("a.txt"), Chars(".pdf")}

\* The name NamedTemporaryFile gives the file of the n-th request.
TempName(n) == <<"tmp", n>>

\* JSONResponse(status_code=..., content=...)
JSONResponse(status_code, content) == [status |-> status_code, content |-> content]

\* formatted_result
formatted_result(name, analysis_result) ==
    [filename |-> name,
     analysis |-> [loopholes |-> analysis_result.Loopholes,
                   benefits |-> analysis_result.Summary["Benefits"],
                   major_exclusions |-> analysis_result.Summary["Major Exclusions"],
                   coverage_highlights |-> analysis_result.Summary["Coverage Highlights"]]]

analyzerVars == <<policy_text, nlp, result, calls>>

\* A request arrives with its upload; the handler's locals are unbound.
Receive ==
    /\ pc \in {"idle", "done"}
    /\ served < MaxRequests
    /\ served' = served + 1
    /\ filename' \in Filenames
    /\ pc' = "verify"
    /\ temp_path' = NoPath
    /\ created' = {}
    /\ unlinks' = <<>>
    /\ raising' = FALSE
    /\ response' = NoResult
    /\ invoked' = <<>>
    /\ extraction' = "not called"
    /\ UNCHANGED <<fs, analyzerVars>>

\* if not file.filename.endswith('.pdf'): return JSONResponse(status_code=400, ...)
VerifyFileType ==
    /\ pc = "verify"
    /\ IF EndsWith(filename, Chars(".pdf"))
       THEN pc' = "create" /\ UNCHANGED response
       ELSE /\ pc' = "done"
            /\ response' = JSONResponse(400, [error |-> "Only PDF files are supported"])
    /\ UNCHANGED <<filename, fs, temp_path, created, unlinks, raising, invoked,
                   extraction, served, analyzerVars>>

\* with tempfile.NamedTemporaryFile(delete=False, suffix='.pdf') as temp_file:
\* the file is created on disk, or the call raises (no file is created).
CreateTempFile ==
    /\ pc = "create"
    /\ \/ /\ fs' = fs \cup {TempName(served)}
          /\ created' = created \cup {TempName(served)}
          /\ pc' = "read"
       \/ /\ pc' = "except"
          /\ UNCHANGED <<fs, created>>
    /\ UNCHANGED <<filename, temp_path, unlinks, raising, response, invoked,
                   extraction, served, analyzerVars>>

\* content = await file.read(): it returns, or it raises, the with block
\* closes the file (delete=False keeps it on disk) and the exception reaches
\* the outer except.
ReadUpload ==
    /\ pc = "read"
    /\ pc' \in {"write", "except"}
    /\ UNCHANGED <<filename, fs, temp_path, created, unlinks, raising, response,
                   invoked, extraction, served, analyzerVars>>

\* temp_file.write(content); temp_path = temp_file.name: the write raises
\* (the disk is full) before temp_path is bound, or both statements run.
WriteUpload ==
    /\ pc = "write"
    /\ \/ /\ temp_path' = TempName(served)
          /\ pc' = "extract"
       \/ /\ pc' = "except"
          /\ UNCHANGED temp_path
    /\ UNCHANGED <<filename, fs, created, unlinks, raising, response, invoked,
                   extraction, served, analyzerVars>>

\* policy_text = analyzer.extract_text_from_pdf(temp_path), first statement
\* of the inner try: an exception leaving it runs the finally clause.
ExtractText ==
    /\ pc = "extract"
    /\ invoked' = Append(invoked, "extract_text_from_pdf")
    /\ \E event \in ExtractionEvents : \E pages_text \in DOMAIN nlp :
           LET outcome == extract_text_from_pdf(event, pages_text)
           IN  /\ extraction' = event
               /\ raising' = outcome.raises
               /\ IF outcome.raises
                  THEN pc' = "finally" /\ UNCHANGED policy_text
                  ELSE pc' = "analyze" /\ policy_text' = outcome.text
    /\ UNCHANGED <<filename, fs, temp_path, created, unlinks, response, served,
                   nlp, result, calls>>

\* analysis_result = analyzer.analyze_policy(policy_text), formatted_result,
\* return JSONResponse(content=formatted_result): the finally clause runs
\* before the handler returns.
Analyze ==
    /\ pc = "analyze"
    /\ invoked' = Append(invoked, "analyze_policy")
    /\ AnalyzeCall(policy_text)
    /\ response' = JSONResponse(200, formatted_result(filename, result'))
    /\ pc' = "finally"
    /\ UNCHANGED <<filename, fs, temp_path, created, unlinks, raising, extraction,
                   served>>

\* finally: os.unlink(temp_path).  The pending exception, if any, goes on to
\* the outer except; otherwise the handler returns its response.
Finally ==
    /\ pc = "finally"
    /\ unlinks' = Append(unlinks, temp_path)
    /\ fs' = fs \ {temp_path}
    /\ pc' = (IF raising \/ temp_path \notin fs THEN "except" ELSE "done")
    /\ UNCHANGED <<filename, temp_path, created, raising, response, invoked,
                   extraction, served, analyzerVars>>

\* except Exception as e: return JSONResponse(status_code=500, ...)
Except ==
    /\ pc = "except"
    /\ response' = JSONResponse(500,
                        [error |-> "An error occurred while processing the file"])
    /\ raising' = FALSE
    /\ pc' = "done"
    /\ UNCHANGED <<filename, fs, temp_path, created, unlinks, invoked, extraction,
                   served, analyzerVars>>

\* analyzer = InsurancePolicyAnalyzer() at import, before any request.
InitApi == InitCalls

NextApi ==
    \/ Receive
    \/ VerifyFileType
    \/ CreateTempFile
    \/ ReadUpload
    \/ WriteUpload
    \/ ExtractText
    \/ Analyze
    \/ Finally
    \/ Except

SpecApi == InitApi /\ [][NextApi]_vars

-----------------------------------------------------------------------------
(* What the loophole categories are claimed to hold                        *)

\* The elements of a set of numbers, in increasing order.
SortSet(S) ==
    [i \in 1..Cardinality(S) |-> CHOOSE x \in S : Cardinality({y \in S : y < x}) = i - 1]

Analysed == result # NoResult

Terminators == {".", "!"}

\* The positions where keyword occurs in text between word boundaries.
Occurrences(keyword, text) ==
    {p \in 1..Len(text) :
        /\ OccursAt(Lower(keyword), Lower(text), p)
        /\ WordBoundary(text, p)
        /\ WordBoundary(text, p + Len(keyword))}

\* The position of the first '.' or '!' at or after index from; 0 if none.
NextTerminator(text, from) ==
    LET stops == {t \in from..Len(text) : text[t] \in Terminators}
    IN  IF stops = {} THEN 0 ELSE CHOOSE t \in stops : \A u \in stops : t <= u

\* The occurrence at p has an entry of its own: a terminator follows on the
\* same line, and no earlier occurrence of the keyword reaches p without
\* passing a terminator or a newline (its entry would run over p).
HasOwnEntry(keyword, text, p) ==
    LET from == p + Len(keyword)
        t == NextTerminator(text, from)
    IN  /\ t # 0
        /\ \A m \in from..(t - 1) : text[m] # "\n"
        /\ ~\E q \in Occurrences(keyword, text) :
               /\ q < p
               /\ \A m \in (q + Len(keyword))..(p - 1) :
                      text[m] \notin Terminators \cup {"\n"}

\* The entry of the occurrence at p: from p through the next terminator.
EntryAt(keyword, text, p) ==
    SubSeq(text, p, NextTerminator(text, p + Len(keyword)))

\* The entries of one keyword, in text order; then keyword after keyword.
ExpectedClauses(keywords, text) ==
    Flatten([k \in 1..Len(keywords) |->
        LET starts == SortSet({p \in Occurrences(keywords[k], text) :
                                  HasOwnEntry(keywords[k], text, p)})
        IN  [i \in 1..Len(starts) |-> EntryAt(keywords[k], text, starts[i])]])

InList(list, x) == \E j \in 1..Len(list) : list[j] = x

\* C4 as stated: every word-boundary occurrence of a listed keyword has its
\* entry, from the occurrence through the next '.' or '!', whenever such a
\* terminator exists anywhere later in the text, and none when no terminator
\* follows.
OriginalClauseRule(keywords, list, text) ==
    \A k \in 1..Len(keywords) : \A p \in Occurrences(keywords[k], text) :
        IF NextTerminator(text, p + Len(keywords[k])) # 0
        THEN InList(list, EntryAt(keywords[k], text, p))
        ELSE ~\E j \in 1..Len(list) : OccursAt(list[j], text, p)

\* C4 as stated, for Exclusion Clauses and for Claim Rejection Risks.
C4_AnyLaterTerminator ==
    Analysed =>
        /\ OriginalClauseRule(exclusion_keywords,
                              result.Loopholes["Exclusion Clauses"], policy_text)
        /\ OriginalClauseRule(rejection_indicators,
                              result.Loopholes["Claim Rejection Risks"], policy_text)

\* C4, amended: Exclusion Clauses and Claim Rejection Risks hold exactly the
\* entries of the occurrences that have a terminator on the same line (no
\* newline between the keyword and the next '.' or '!') and are not run over
\* by the entry of an earlier occurrence of the same keyword; keyword after
\* keyword in list order, in text order within a keyword.
C4_ClausesOnOneLine ==
    Analysed =>
        /\ result.Loopholes["Exclusion Clauses"]
              = ExpectedClauses(exclusion_keywords, policy_text)
        /\ result.Loopholes["Claim Rejection Risks"]
              = ExpectedClauses(rejection_indicators, policy_text)

\* An exclusion keyword followed by a newline before the next terminator has
\* no entry, while a rejection indicator of the same text has one.
C4_Witness ==
    /\ Analysed
    /\ \E k \in 1..Len(exclusion_keywords) :
         \E p \in Occurrences(exclusion_keywords[k], policy_text) :
            /\ NextTerminator(policy_text, p + Len(exclusion_keywords[k])) # 0
            /\ ~HasOwnEntry(exclusion_keywords[k], policy_text, p)
    /\ result.Loopholes["Exclusion Clauses"] = <<>>
    /\ result.Loopholes["Claim Rejection Risks"] # <<>>

\* s.split(): the maximal runs of non-whitespace of s, in order.
Split(s) ==
    LET starts == SortSet({i \in 1..Len(s) :
                              ~IsSpace(s[i]) /\ (i = 1 \/ IsSpace(s[i - 1]))})
        EndOf(i) == CHOOSE e \in i..Len(s) :
                        /\ \A m \in i..e : ~IsSpace(s[m])
                        /\ (e = Len(s) \/ IsSpace(s[e + 1]))
    IN  [j \in 1..Len(starts) |-> SubSeq(s, starts[j], EndOf(starts[j]))]

\* s is the words of the pattern, in any case, with whitespace between them
\* and none around them.
IsPhrase(pattern, s) ==
    /\ s # <<>>
    /\ ~IsSpace(s[1])
    /\ ~IsSpace(s[Len(s)])
    /\ Split(Lower(s)) = pattern

\* The spans <<first, last>> of text that are the phrase.
PhraseSpans(pattern, text) ==
    {span \in (1..Len(text)) \X (1..Len(text)) :
        /\ span[1] <= span[2]
        /\ ToLower(text[span[1]]) = pattern[1][1]
        /\ IsPhrase(pattern, SubSeq(text, span[1], span[2]))}

\* The spans of a set, as substrings of text in the order of their start.
InTextOrder(spans, text) ==
    LET starts == SortSet({span[1] : span \in spans})
    IN  [i \in 1..Len(starts) |->
            LET span == CHOOSE sp \in spans : sp[1] = starts[i]
            IN  SubSeq(text, span[1], span[2])]

\* C5 as stated: Ambiguous Language holds the literal matches of the five
\* patterns ordered by their position in the text, whatever their pattern.
C5_TextOrder ==
    Analysed =>
        result.Loopholes["Ambiguous Language"]
            = InTextOrder(UNION {PhraseSpans(ambiguous_patterns[k], policy_text) :
                                    k \in 1..Len(ambiguous_patterns)},
                          policy_text)

\* C5, amended: Ambiguous Language holds the literal matched substrings, one
\* per match and duplicates kept, grouped by pattern in the order of the
\* pattern list, and in text order within one pattern.
C5_PatternThenTextOrder ==
    Analysed =>
        result.Loopholes["Ambiguous Language"]
            = Flatten([k \in 1..Len(ambiguous_patterns) |->
                  InTextOrder(PhraseSpans(ambiguous_patterns[k], policy_text),
                              policy_text)])

\* A later pattern matches earlier in the text than an earlier pattern, and
\* one pattern matches twice.
C5_Witness ==
    /\ Analysed
    /\ \E s1 \in PhraseSpans(ambiguous_patterns[1], policy_text) :
         \E s2 \in PhraseSpans(ambiguous_patterns[2], policy_text) : s2[1] < s1[1]
    /\ Len(result.Loopholes["Ambiguous Language"]) >= 3
    /\ \E i, j \in 1..Len(result.Loopholes["Ambiguous Language"]) :
          /\ i # j
          /\ result.Loopholes["Ambiguous Language"][i]
                = result.Loopholes["Ambiguous Language"][j]

-----------------------------------------------------------------------------
(* What the summary is claimed to hold                                     *)

Sents == nlp[policy_text]
Summary == result.Summary

\* The lowercased text contains "not " or "exclude".
SaysNot(text) ==
    \/ Contains(Lower(text), Chars("not "))
    \/ Contains(Lower(text), Chars("exclude"))

\* The sentences as the claims describe them, evaluated once per sentence.
described ==
    [i \in 1..Len(Sentences) |->
        [trimmed     |-> Strip(Sentences[i]),
         says_not    |-> SaysNot(Sentences[i]),
         trimmed_says_not |-> SaysNot(Strip(Sentences[i])),
         not_covered |-> Contains(Lower(Sentences[i]), Chars("not covered")),
         exclusion   |-> ContainsAny(Lower(Sentences[i]), major_exclusion_keywords),
         sections    |-> {k \in 1..Len(section_patterns) :
                             /\ Contains(Lower(Sentences[i]), section_patterns[k])
                             /\ Len(Split(Sentences[i])) > 5},
         qualifies   |-> {c \in 1..Len(benefit_keywords) :
                             /\ Len(Split(Strip(Sentences[i]))) > 5
                             /\ ContainsAny(Lower(Strip(Sentences[i])),
                                            benefit_keywords[c].keywords)
                             /\ ~SaysNot(Strip(Sentences[i]))}]]

Described(text) == described[SentenceIndex(text)]

\* A listed entry is a trimmed sentence: what is described of it.
DescribedEntry(entry) ==
    described[CHOOSE i \in 1..Len(Sentences) : described[i].trimmed = entry]

\* The first `limit` sentences of Sents, trimmed, at the positions of `at`.
FirstTrimmed(at, limit) ==
    LET order == SortSet(at)
    IN  [r \in 1..(IF Len(order) < limit THEN Len(order) ELSE limit) |->
            Described(Sents[order[r]]).trimmed]

BenefitsOf(c) == Summary["Benefits"][benefit_keywords[c].category]

\* The lists negation suppression applies to.
SuppressedLists ==
    {BenefitsOf(c) : c \in 1..Len(benefit_keywords)} \cup {Summary["Coverage Highlights"]}

\* The second half of C2: a sentence containing "not covered" is listed in
\* Major Exclusions whenever it is among the first five sentences that match
\* an exclusion keyword.
NotCoveredListed ==
    LET matching == {i \in 1..Len(Sents) : Described(Sents[i]).exclusion}
    IN  /\ Summary["Major Exclusions"] = FirstTrimmed(matching, 5)
        /\ \A i \in matching :
              (/\ Described(Sents[i]).not_covered
               /\ Cardinality({j \in matching : j < i}) < 5)
                  => InList(Summary["Major Exclusions"], Described(Sents[i]).trimmed)

FirstQualifying(c) ==
    LET qualifying == {i \in 1..Len(Sents) : c \in Described(Sents[i]).qualifies}
    IN  {i \in qualifying :
            \A j \in qualifying :
                j < i => Described(Sents[j]).trimmed # Described(Sents[i]).trimmed}

NoDuplicates(list) == \A i, j \in 1..Len(list) : list[i] = list[j] => i = j

\* C3: each Benefits category is the first 5 distinct qualifying sentences in
\* document order, without duplicates; a repeated sentence takes no slot.
C3_FirstFiveDistinct ==
    Analysed =>
        \A c \in 1..Len(benefit_keywords) :
            /\ BenefitsOf(c) = FirstTrimmed(FirstQualifying(c), 5)
            /\ NoDuplicates(BenefitsOf(c))

\* Six qualifying sentences, one of the first five a repeat, and all five
\* distinct ones are listed.
C3_Witness ==
    /\ Analysed
    /\ Len(BenefitsOf(3)) = 5
    /\ Cardinality(FirstQualifying(3)) = 5
    /\ \E i \in 1..5 : i \notin FirstQualifying(3) /\ 3 \in Described(Sents[i]).qualifies

\* The capitalized section names.
SectionNames ==
    << Chars("Coverage"), Chars("Benefits"), Chars("Exclusions"),
       Chars("Claims"), Chars("Terms"), Chars("Conditions") >>

SectionPositions(k) == {i \in 1..Len(Sents) : k \in Described(Sents[i]).sections}

\* C6: Key Sections has a section's capitalized name exactly when a sentence
\* of more than 5 words contains the name, ignoring case; its value is the
\* first 3 such sentences, trimmed, in document order, and never empty.
C6_KeySections ==
    Analysed =>
        /\ DOMAIN Summary["Key Sections"] \subseteq {SectionNames[k] : k \in 1..6}
        /\ \A k \in 1..6 :
              /\ SectionNames[k] \in DOMAIN Summary["Key Sections"]
                    <=> SectionPositions(k) # {}
              /\ SectionNames[k] \in DOMAIN Summary["Key Sections"] =>
                    /\ Summary["Key Sections"][SectionNames[k]]
                          = FirstTrimmed(SectionPositions(k), 3)
                    /\ Summary["Key Sections"][SectionNames[k]] # <<>>

\* Terms is listed with its first 3 of more than 3 sentences, one of them
\* trimmed of its trailing whitespace; Benefits is left out although a
\* three-word sentence contains "benefits".
C6_Witness ==
    /\ Analysed
    /\ Cardinality(SectionPositions(5)) > 3
    /\ Len(Summary["Key Sections"][SectionNames[5]]) = 3
    /\ InList(Sents, ShortSentence)
    /\ InList(Summary["Key Sections"][SectionNames[5]], Strip(TrailingNotSentence))
    /\ SectionNames[2] \notin DOMAIN Summary["Key Sections"]

-----------------------------------------------------------------------------
(* The shape and the size of a result                                      *)

LoopholeCategories ==
    {"Ambiguous Language", "Exclusion Clauses", "Limitation Flags",
     "Claim Rejection Risks"}

SummaryFields ==
    {"Key Sections", "Coverage Highlights", "Benefits", "Major Exclusions",
     "Claim Process"}

BenefitCategories == {benefit_keywords[c].category : c \in 1..Len(benefit_keywords)}

\* x is a list: a function on 1..n.
IsList(x) == DOMAIN x = 1..Cardinality(DOMAIN x)

\* C1: the result of analyze_policy has exactly the keys Loopholes and
\* Summary; Loopholes has its four categories, each a list; Summary has its
\* five fields, Benefits its three categories, each a list; Coverage
\* Highlights and Major Exclusions are lists, Key Sections maps section names
\* to lists and Claim Process is the empty dict.
C1_WellFormed ==
    Analysed =>
        /\ DOMAIN result = {"Loopholes", "Summary"}
        /\ DOMAIN result.Loopholes = LoopholeCategories
        /\ \A k \in LoopholeCategories : IsList(result.Loopholes[k])
        /\ DOMAIN Summary = SummaryFields
        /\ DOMAIN Summary["Benefits"] = BenefitCategories
        /\ \A c \in BenefitCategories : IsList(Summary["Benefits"][c])
        /\ IsList(Summary["Coverage Highlights"])
        /\ IsList(Summary["Major Exclusions"])
        /\ Summary["Claim Process"] = EmptyDict
        /\ \A k \in DOMAIN Summary["Key Sections"] : IsList(Summary["Key Sections"][k])

\* The empty string analysed: every category and field present and empty.
C1_Witness ==
    /\ Analysed
    /\ policy_text = EmptyText
    /\ \A k \in LoopholeCategories : result.Loopholes[k] = <<>>
    /\ \A c \in BenefitCategories : Summary["Benefits"][c] = <<>>
    /\ Summary["Key Sections"] = EmptyDict
    /\ Summary["Coverage Highlights"] = <<>>
    /\ Summary["Major Exclusions"] = <<>>
    /\ Summary["Claim Process"] = EmptyDict

\* C7: a Key Sections list has at most 3 sentences; a Benefits category,
\* Coverage Highlights and Major Exclusions have at most 5; a loophole
\* category has no bound: Exclusion Clauses has one entry for every "not
\* covered" of a document whose sentences each end in a terminator.
C7_Bounded ==
    Analysed =>
        /\ \A k \in DOMAIN Summary["Key Sections"] : Len(Summary["Key Sections"][k]) <= 3
        /\ \A c \in BenefitCategories : Len(Summary["Benefits"][c]) <= 5
        /\ Len(Summary["Coverage Highlights"]) <= 5
        /\ Len(Summary["Major Exclusions"]) <= 5
        /\ Len(result.Loopholes["Exclusion Clauses"])
              = Cardinality(Occurrences(Chars("not covered"), policy_text))

\* More sentences qualify than each limit admits, every list is at its
\* limit, and Exclusion Clauses has more than five entries.
C7_Witness ==
    /\ Analysed
    /\ Cardinality(SectionPositions(5)) > 3
    /\ Len(Summary["Key Sections"][SectionNames[5]]) = 3
    /\ Cardinality(FirstQualifying(3)) > 5
    /\ Len(BenefitsOf(3)) = 5
    /\ Cardinality({i \in 1..Len(Sents) : Described(Sents[i]).exclusion}) > 5
    /\ Len(Summary["Major Exclusions"]) = 5
    /\ Len(Summary["Coverage Highlights"]) = 5
    /\ Len(result.Loopholes["Exclusion Clauses"]) > 5

-----------------------------------------------------------------------------
(* Calls on one analyzer                                                   *)

-----------------------------------------------------------------------------
(* The endpoint: extraction failures and the temporary file                *)

Returned == pc = "done"

\* The analysis of a 200 response has nothing in any of its lists.
AllEmpty(content) ==
    /\ \A k \in LoopholeCategories : content.analysis.loopholes[k] = <<>>
    /\ \A c \in BenefitCategories : content.analysis.benefits[c] = <<>>
    /\ content.analysis.major_exclusions = <<>>
    /\ content.analysis.coverage_highlights = <<>>

\* The request went on to analyze_policy("") and was answered 200 with an
\* all-empty analysis.
DegradedSilently ==
    /\ invoked = <<"extract_text_from_pdf", "analyze_policy">>
    /\ policy_text = EmptyText
    /\ response.status = 200
    /\ AllEmpty(response.content)

\* C9 as stated: whenever the extraction fails (missing library, unreadable
\* or malformed file, failing page), the request proceeds to
\* analyze_policy("") and returns an all-empty result, not an error.
C9_FailuresDegradeSilently ==
    (Returned /\ extraction \in ExtractionFailures) => DegradedSilently

\* C9, amended: only a missing PDF library (ImportError) degrades silently to
\* analyze_policy("") and an all-empty 200 response; any other extraction
\* failure leaves extract_text_from_pdf as an exception, analyze_policy is
\* not called and the response is a 500 error.
C9_OnlyImportErrorDegrades ==
    Returned =>
        /\ extraction = "ImportError" => DegradedSilently
        /\ extraction \in ExtractionFailures \ {"ImportError"} =>
              /\ invoked = <<"extract_text_from_pdf">>
              /\ response.status = 500

\* A malformed file: the extraction raised, the temporary file was removed
\* and the request was answered 500 without an analysis.
C9_Witness ==
    /\ Returned
    /\ extraction = "PdfReadError"
    /\ response.status = 500
    /\ invoked = <<"extract_text_from_pdf">>
    /\ unlinks = <<temp_path>>

\* C10 as stated: when the response is returned, every temporary file the
\* request created has been deleted exactly once, and a request answered 400
\* created no temporary file and called no analyzer method.
C10_TempFileDeletedOnce ==
    Returned =>
        /\ response.status \in {200, 400, 500}
        /\ \A path \in created :
              /\ path \notin fs
              /\ Cardinality({i \in 1..Len(unlinks) : unlinks[i] = path}) = 1
        /\ response.status = 400 => (created = {} /\ invoked = <<>>)

====
